---- MODULE Spec2Model ----
(***************************************************************************)
(* bloom_engine: StandardBloomFilter and SandwichedLearnedBloomFilter of   *)
(* src/main.cpp, and the population routine of main().                     *)
(*                                                                         *)
(* A std::string is a sequence of one-character strings.  A                *)
(* std::vector<bool> is a sequence of BOOLEAN (C++ index i is TLA+ index   *)
(* i + 1).  std::hash<std::string> is implementation-defined: it is a      *)
(* function fixed when the process starts, drawn from every function of    *)
(* the hashed strings to a range of size_t values.  evaluate_model comes   *)
(* from decision_tree.h, which is not part of the sources at hand: it is   *)
(* a deterministic function of the three features, fixed when the process  *)
(* starts.                                                                 *)
(***************************************************************************)
EXTENDS Integers, Sequences, FiniteSets, TLC

VARIABLES
    hasher,        \* std::hash<std::string>: hashed string -> size_t value
    model,         \* evaluate_model: <<f0, f1, f2>> -> BOOLEAN
    standard_bf,   \* a StandardBloomFilter object, or NoObject
    learned_bf,    \* a SandwichedLearnedBloomFilter object, or NoObject
    fault,         \* "none", or how the process ended abnormally
    pc,            \* position of the running program
    i,             \* main: index of the next malicious url to insert
    op,            \* the member function the last step called
    arg,           \* the key the last step passed to it, <<>> when it took none
    ret,           \* the bool the last step returned, FALSE when it returned none
    mem,           \* the int the last step returned, 0 when it returned none
    ins_std,       \* history: keys passed to standard_bf.insert
    ins_L1,        \* history: keys passed to learned_bf.insert_L1
    ins_L3,        \* history: keys passed to learned_bf.insert_L3
    given,         \* history: the sizes given to the constructors
    feat           \* what extract_features last wrote to <<f0, f1, f2>>

vars == <<hasher, model, standard_bf, learned_bf, fault, pc, i, op, arg, ret, mem,
          ins_std, ins_L1, ins_L3, given, feat>>

\* ------------------------------------------------------------------ bounds
\* largest size and num_hashes given to a StandardBloomFilter by its client
MaxSize == 2
MaxHashes == 2
\* largest sizes and hash counts given to a SandwichedLearnedBloomFilter
MaxLayerSize == 2
MaxLayerHashes == 1
\* std::hash values are drawn from 0 .. MaxHashVal
MaxHashVal == 1
\* main: number of urls generated (5000 in the source)
NumUrls == 1

\* the longest key handed to extract_features on its own
MaxKeyLen == 3

\* ------------------------------------------------------- program constants
StandardSize == 3000
StandardHashes == 3
L1Size == 1000
L1Hashes == 2
L3Size == 500
L3Hashes == 2

\* ------------------------------------------------------------------ strings
Digits == <<"0", "1", "2", "3", "4", "5", "6", "7", "8", "9">>

\* std::to_string(int)
RECURSIVE to_string(_)
to_string(n) ==
    IF n < 0 THEN <<"-">> \o to_string(-n)
    ELSE IF n < 10 THEN <<Digits[n + 1]>>
    ELSE to_string(n \div 10) \o <<Digits[(n % 10) + 1]>>

\* isdigit(c) in the "C" locale
isdigit(c) == \E d \in 1..10 : Digits[d] = c

HttpPrefix == <<"h", "t", "t", "p", ":", "/", "/">>
DotCom == <<".", "c", "o", "m">>

\* "http://bad-hacker-site-" + std::to_string(n) + ".com"
malicious_url(n) ==
    HttpPrefix
    \o <<"b", "a", "d", "-", "h", "a", "c", "k", "e", "r", "-", "s", "i", "t", "e", "-">>
    \o to_string(n) \o DotCom

\* "http://safe-site-" + std::to_string(n) + ".com"
safe_url(n) ==
    HttpPrefix \o <<"s", "a", "f", "e", "-", "s", "i", "t", "e", "-">>
    \o to_string(n) \o DotCom

\* main's two vectors after the generation loop
malicious_urls == [n \in 1..NumUrls |-> malicious_url(n - 1)]
safe_urls == [n \in 1..NumUrls |-> safe_url(n - 1)]

\* the keys the class-level specifications pass to the member functions
Keys == {<<"a", "-", "1">>, <<"b">>}

\* ------------------------------------------------------ StandardBloomFilter
\* a constructor that fills the bit array with ones: bit_array.resize(size, true)
StandardBloomFilter_all_set(s, k) ==
    [bit_array |-> [n \in 1..s |-> TRUE], size |-> s, num_hashes |-> k]

\* StandardBloomFilter::StandardBloomFilter(int s, int k), s >= 0:
\* size(s), num_hashes(k), bit_array.resize(size, false)
StandardBloomFilter(s, k) ==
    [bit_array |-> [n \in 1..s |-> FALSE], size |-> s, num_hashes |-> k]

\* bit_array.resize(size, false) with size < 0: the int converts to a
\* size_type above max_size() and resize throws std::length_error
resize_throws(s) == s < 0

\* the placeholder held by a variable before its object is constructed
NoFilter == StandardBloomFilter(0, 0)

\* a hash that mixes the filter's load into the index
hash_stateful(f, item, seed) ==
    (hasher[item \o to_string(seed)]
       + Cardinality({n \in 1..Len(f.bit_array) : f.bit_array[n]})) % f.size

\* a hash that reduces modulo size + 1
hash_off_by_one(f, item, seed) == hasher[item \o to_string(seed)] % (f.size + 1)

\* StandardBloomFilter::hash, size > 0
hash(f, item, seed) == hasher[item \o to_string(seed)] % f.size

\* hash is called with size = 0: the loop body runs and divides by zero
divides_by_zero(f) == f.num_hashes > 0 /\ f.size = 0

\* an insert loop that flips each bit it reaches instead of setting it
RECURSIVE insert_from_toggle(_, _, _)
insert_from_toggle(f, item, n) ==
    IF n < f.num_hashes
    THEN insert_from_toggle(
             [f EXCEPT !.bit_array[hash(f, item, n) + 1] = ~f.bit_array[hash(f, item, n) + 1]],
             item, n + 1)
    ELSE f

\* StandardBloomFilter::insert: the loop from seed n on
RECURSIVE insert_from(_, _, _)
insert_from(f, item, n) ==
    IF n < f.num_hashes
    THEN insert_from([f EXCEPT !.bit_array[hash(f, item, n) + 1] = TRUE], item, n + 1)
    ELSE f

\* an insert whose loop stops one seed early: i < num_hashes - 1
RECURSIVE insert_upto(_, _, _, _)
insert_upto(f, item, n, last) ==
    IF n < last
    THEN insert_upto([f EXCEPT !.bit_array[hash(f, item, n) + 1] = TRUE], item, n + 1, last)
    ELSE f

insert_stops_early(f, item) == insert_upto(f, item, 0, f.num_hashes - 1)

\* an insert whose loop starts at seed 1
insert_skips_first(f, item) == insert_from(f, item, 1)

\* an insert that clears the bit array before it sets the key's bits
insert_resets(f, item) ==
    insert_upto([f EXCEPT !.bit_array = [n \in 1..f.size |-> FALSE]], item, 0, f.num_hashes)

insert(f, item) == insert_from(f, item, 0)

\* StandardBloomFilter::possibly_contains: the loop from seed n on
RECURSIVE contains_from(_, _, _)
contains_from(f, item, n) ==
    IF n < f.num_hashes
    THEN IF ~f.bit_array[hash(f, item, n) + 1] THEN FALSE
         ELSE contains_from(f, item, n + 1)
    ELSE TRUE

possibly_contains(f, item) == contains_from(f, item, 0)

\* number of set bits of a filter
BitCount(f) == Cardinality({n \in 1..Len(f.bit_array) : f.bit_array[n]})

\* a get_memory_bits that reports the number of set bits
get_memory_bits_load(f) == BitCount(f)

\* StandardBloomFilter::get_memory_bits
get_memory_bits(f) == f.size

\* --------------------------------------------- SandwichedLearnedBloomFilter
\* extract_features: the counting loop over the characters from position n on
RECURSIVE count_from(_, _, _, _)
count_from(item, n, f1, f2) ==
    IF n > Len(item) THEN <<f1, f2>>
    ELSE count_from(item, n + 1,
                    IF isdigit(item[n]) THEN f1 + 1 ELSE f1,
                    IF item[n] = "-" THEN f2 + 1 ELSE f2)

\* SandwichedLearnedBloomFilter::extract_features: <<f0, f1, f2>>
extract_features(item) ==
    LET c == count_from(item, 1, 0, 0) IN <<Len(item), c[1], c[2]>>

\* evaluate_model(f0, f1, f2) of decision_tree.h
evaluate_model(f0, f1, f2) == model[<<f0, f1, f2>>]

\* SandwichedLearnedBloomFilter::SandwichedLearnedBloomFilter, both sizes >= 0
SandwichedLearnedBloomFilter(L1_size, L1_hashes, L3_size, L3_hashes) ==
    [L1_filter |-> StandardBloomFilter(L1_size, L1_hashes),
     L3_filter |-> StandardBloomFilter(L3_size, L3_hashes)]

NoSandwich == SandwichedLearnedBloomFilter(0, 0, 0, 0)

\* SandwichedLearnedBloomFilter::insert_L1
insert_L1(b, item) == [b EXCEPT !.L1_filter = insert(b.L1_filter, item)]

\* an insert_L3 that writes the key to both layers (to L1 whenever L1 can
\* hash it)
insert_L3_both(b, item) ==
    [b EXCEPT !.L3_filter = insert(b.L3_filter, item),
              !.L1_filter = IF divides_by_zero(b.L1_filter) THEN b.L1_filter
                            ELSE insert(b.L1_filter, item)]

\* an insert_L3 that never forwards the key to L3_filter
insert_L3_dropped(b, item) == b

\* SandwichedLearnedBloomFilter::insert_L3
insert_L3(b, item) == [b EXCEPT !.L3_filter = insert(b.L3_filter, item)]

\* query's classifier step: extract_features(item, f0, f1, f2), then
\* evaluate_model(f0, f1, f2)
predicts_member(item) ==
    LET f == extract_features(item) IN evaluate_model(f[1], f[2], f[3])

\* a query that trusts the classifier's negative answer too (no L3 backstop)
query_trusts_model(b, item) ==
    IF ~possibly_contains(b.L1_filter, item) THEN FALSE
    ELSE predicts_member(item)

\* SandwichedLearnedBloomFilter::query
query(b, item) ==
    IF ~possibly_contains(b.L1_filter, item) THEN FALSE
    ELSE IF predicts_member(item) THEN TRUE
    ELSE possibly_contains(b.L3_filter, item)

\* query reaches a hash call that divides by zero
query_divides_by_zero(b, item) ==
    \/ divides_by_zero(b.L1_filter)
    \/ /\ possibly_contains(b.L1_filter, item)
       /\ ~predicts_member(item)
       /\ divides_by_zero(b.L3_filter)

\* SandwichedLearnedBloomFilter::get_memory_bits
sandwich_memory_bits(b) == get_memory_bits(b.L1_filter) + get_memory_bits(b.L3_filter)

\* ------------------------------------------------------- process start-up
\* the strings hash() builds from the keys ks with seeds below k
HashedStrings(ks, k) == {item \o to_string(seed) : item \in ks, seed \in 0..(k - 1)}

\* the size_t values std::hash yields
HashVals == 0..MaxHashVal

\* the feature vectors of the keys ks
Features(ks) == {extract_features(item) : item \in ks}

\* what dividing by zero and indexing the empty bit_array can end in
Crashes == {"SIGFPE", "SIGSEGV"}

Max(a, b) == IF a > b THEN a ELSE b

\* no constructor has run: the placeholders have size 0
NoneGiven == [standard_bf |-> 0, L1_filter |-> 0, L3_filter |-> 0]

\* the process before it runs: std::hash on the strings that keys ks and
\* seeds below k give, evaluate_model on the feature vectors fs
Start(ks, k, fs) ==
    /\ hasher \in [HashedStrings(ks, k) -> HashVals]
    /\ model \in [fs -> BOOLEAN]
    /\ standard_bf = NoFilter
    /\ learned_bf = NoSandwich
    /\ fault = "none"
    /\ pc = "start"
    /\ i = 0
    /\ op = "none"
    /\ arg = <<>>
    /\ ret = FALSE
    /\ mem = 0
    /\ ins_std = {}
    /\ ins_L1 = {}
    /\ ins_L3 = {}
    /\ given = NoneGiven
    /\ feat = <<0, 0, 0>>

\* a call that ends the process
Crash ==
    /\ fault' \in Crashes
    /\ pc' = "terminated"
    /\ ret' = FALSE
    /\ mem' = 0

\* --------------------------------- a client of one StandardBloomFilter
\* StandardBloomFilter standard_bf(s, k)
ConstructFilter(s, k) ==
    /\ pc = "start"
    /\ op' = "StandardBloomFilter"
    /\ IF resize_throws(s)
       THEN /\ fault' = "length_error"
            /\ pc' = "terminated"
            /\ UNCHANGED standard_bf
       ELSE /\ standard_bf' = StandardBloomFilter(s, k)
            /\ pc' = "ready"
            /\ UNCHANGED fault
    /\ given' = IF resize_throws(s) THEN given ELSE [given EXCEPT !.standard_bf = s]
    /\ UNCHANGED <<hasher, model, feat, learned_bf, i, arg, ret, mem, ins_std, ins_L1, ins_L3>>

\* standard_bf.insert(item)
Insert(item) ==
    /\ pc = "ready"
    /\ op' = "insert"
    /\ arg' = item
    /\ IF divides_by_zero(standard_bf)
       THEN /\ Crash
            /\ UNCHANGED <<standard_bf, ins_std>>
       ELSE /\ standard_bf' = insert(standard_bf, item)
            /\ ins_std' = ins_std \cup {item}
            /\ ret' = FALSE
            /\ mem' = 0
            /\ UNCHANGED <<fault, pc>>
    /\ UNCHANGED <<hasher, model, given, feat, learned_bf, i, ins_L1, ins_L3>>

\* standard_bf.possibly_contains(item)
PossiblyContains(item) ==
    /\ pc = "ready"
    /\ op' = "possibly_contains"
    /\ arg' = item
    /\ IF divides_by_zero(standard_bf)
       THEN Crash
       ELSE /\ ret' = possibly_contains(standard_bf, item)
            /\ mem' = 0
            /\ UNCHANGED <<fault, pc>>
    /\ UNCHANGED <<hasher, model, given, feat, standard_bf, learned_bf, i, ins_std, ins_L1, ins_L3>>

\* standard_bf.get_memory_bits()
GetMemoryBits ==
    /\ pc = "ready"
    /\ op' = "get_memory_bits"
    /\ arg' = <<>>
    /\ ret' = FALSE
    /\ mem' = get_memory_bits(standard_bf)
    /\ UNCHANGED <<hasher, model, given, feat, standard_bf, learned_bf, fault, pc, i,
                   ins_std, ins_L1, ins_L3>>

InitFilter == Start(Keys, MaxHashes, {})

NextFilter ==
    \/ \E s \in -1..MaxSize, k \in -1..MaxHashes : ConstructFilter(s, k)
    \/ \E item \in Keys : Insert(item)
    \/ \E item \in Keys : PossiblyContains(item)
    \/ GetMemoryBits

SpecFilter == InitFilter /\ [][NextFilter]_vars

\* ------------------------ a client of one SandwichedLearnedBloomFilter
\* learned_bf.insert_L1(item)
InsertL1(item) ==
    /\ pc = "ready"
    /\ op' = "insert_L1"
    /\ arg' = item
    /\ IF divides_by_zero(learned_bf.L1_filter)
       THEN /\ Crash
            /\ UNCHANGED <<learned_bf, ins_L1>>
       ELSE /\ learned_bf' = insert_L1(learned_bf, item)
            /\ ins_L1' = ins_L1 \cup {item}
            /\ ret' = FALSE
            /\ mem' = 0
            /\ UNCHANGED <<fault, pc>>
    /\ UNCHANGED <<hasher, model, given, feat, standard_bf, i, ins_std, ins_L3>>

\* learned_bf.insert_L3(item)
InsertL3(item) ==
    /\ pc = "ready"
    /\ op' = "insert_L3"
    /\ arg' = item
    /\ IF divides_by_zero(learned_bf.L3_filter)
       THEN /\ Crash
            /\ UNCHANGED <<learned_bf, ins_L3>>
       ELSE /\ learned_bf' = insert_L3(learned_bf, item)
            /\ ins_L3' = ins_L3 \cup {item}
            /\ ret' = FALSE
            /\ mem' = 0
            /\ UNCHANGED <<fault, pc>>
    /\ UNCHANGED <<hasher, model, given, feat, standard_bf, i, ins_std, ins_L1>>

\* a query that records the key in L1 as it answers
Query_recording(item) ==
    /\ pc = "ready"
    /\ op' = "query"
    /\ arg' = item
    /\ IF query_divides_by_zero(learned_bf, item)
       THEN /\ Crash
            /\ UNCHANGED learned_bf
       ELSE /\ ret' = query(learned_bf, item)
            /\ learned_bf' = insert_L1(learned_bf, item)
            /\ mem' = 0
            /\ UNCHANGED <<fault, pc>>
    /\ UNCHANGED <<hasher, model, given, feat, standard_bf, i, ins_std, ins_L1, ins_L3>>

\* learned_bf.query(item)
Query(item) ==
    /\ pc = "ready"
    /\ op' = "query"
    /\ arg' = item
    /\ IF query_divides_by_zero(learned_bf, item)
       THEN Crash
       ELSE /\ ret' = query(learned_bf, item)
            /\ mem' = 0
            /\ UNCHANGED <<fault, pc>>
    /\ UNCHANGED <<hasher, model, given, feat, standard_bf, learned_bf, i, ins_std, ins_L1, ins_L3>>

\* learned_bf.get_memory_bits()
SandwichMemoryBits ==
    /\ pc = "ready"
    /\ op' = "get_memory_bits"
    /\ arg' = <<>>
    /\ ret' = FALSE
    /\ mem' = sandwich_memory_bits(learned_bf)
    /\ UNCHANGED <<hasher, model, given, feat, standard_bf, learned_bf, fault, pc, i,
                   ins_std, ins_L1, ins_L3>>

\* a process that has constructed learned_bf(L1_size, L1_hashes, L3_size,
\* L3_hashes) and called no member function yet
Constructed(L1_size, L1_hashes, L3_size, L3_hashes) ==
    /\ hasher \in [HashedStrings(Keys, Max(L1_hashes, L3_hashes)) -> HashVals]
    /\ model \in [Features(Keys) -> BOOLEAN]
    /\ standard_bf = NoFilter
    /\ learned_bf = SandwichedLearnedBloomFilter(L1_size, L1_hashes, L3_size, L3_hashes)
    /\ fault = "none"
    /\ pc = "ready"
    /\ i = 0
    /\ op = "SandwichedLearnedBloomFilter"
    /\ arg = <<>>
    /\ ret = FALSE
    /\ mem = 0
    /\ ins_std = {}
    /\ ins_L1 = {}
    /\ ins_L3 = {}
    /\ given = [NoneGiven EXCEPT !.L1_filter = L1_size, !.L3_filter = L3_size]
    /\ feat = <<0, 0, 0>>

InitSandwich ==
    \E L1_size \in 0..MaxLayerSize, L1_hashes \in 0..MaxLayerHashes,
       L3_size \in 0..MaxLayerSize, L3_hashes \in 0..MaxLayerHashes :
        Constructed(L1_size, L1_hashes, L3_size, L3_hashes)

NextSandwich ==
    \/ \E item \in Keys : InsertL1(item)
    \/ \E item \in Keys : InsertL3(item)
    \/ \E item \in Keys : Query(item)
    \/ SandwichMemoryBits

SpecSandwich == InitSandwich /\ [][NextSandwich]_vars

\* ------------------------------------------------------------------- main
\* values of rand() on either side of the test rand() % 100 < 10
RandSample == {0, 9, 10, 99, 105, 110}

\* the urls main inserts
MaliciousSet == {malicious_urls[n] : n \in 1..NumUrls}

\* 1. Setup: StandardBloomFilter standard_bf(3000, 3)
SetupStandard ==
    /\ pc = "start"
    /\ standard_bf' = StandardBloomFilter(StandardSize, StandardHashes)
    /\ pc' = "setup_learned"
    /\ op' = "StandardBloomFilter"
    /\ given' = [given EXCEPT !.standard_bf = StandardSize]
    /\ UNCHANGED <<hasher, model, feat, learned_bf, fault, i, arg, ret, mem,
                   ins_std, ins_L1, ins_L3>>

\* 1. Setup: SandwichedLearnedBloomFilter learned_bf(1000, 2, 500, 2)
SetupLearned ==
    /\ pc = "setup_learned"
    /\ learned_bf' = SandwichedLearnedBloomFilter(L1Size, L1Hashes, L3Size, L3Hashes)
    /\ pc' = "generate"
    /\ op' = "SandwichedLearnedBloomFilter"
    /\ given' = [given EXCEPT !.L1_filter = L1Size, !.L3_filter = L3Size]
    /\ UNCHANGED <<hasher, model, feat, standard_bf, fault, i, arg, ret, mem,
                   ins_std, ins_L1, ins_L3>>

\* 2. Generate Test Data: the loop that fills malicious_urls and safe_urls
Generate ==
    /\ pc = "generate"
    /\ pc' = "populate"
    /\ i' = 0
    /\ op' = "generate"
    /\ UNCHANGED <<hasher, model, given, feat, standard_bf, learned_bf, fault, arg, ret, mem,
                   ins_std, ins_L1, ins_L3>>

\* a loop body that leaves out learned_bf.insert_L1(url)
PopulateWith_no_L1(url, r) ==
    /\ standard_bf' = insert(standard_bf, url)
    /\ ins_std' = ins_std \cup {url}
    /\ ins_L1' = ins_L1 \cup {url}
    /\ IF r % 100 < 10
       THEN /\ learned_bf' = insert_L3(learned_bf, url)
            /\ ins_L3' = ins_L3 \cup {url}
       ELSE /\ UNCHANGED learned_bf
            /\ UNCHANGED ins_L3

\* 3. Populate Filters: one iteration of the loop over malicious_urls;
\* r is what rand() returns
PopulateWith(url, r) ==
    /\ standard_bf' = insert(standard_bf, url)
    /\ ins_std' = ins_std \cup {url}
    /\ ins_L1' = ins_L1 \cup {url}
    /\ IF r % 100 < 10
       THEN /\ learned_bf' = insert_L3(insert_L1(learned_bf, url), url)
            /\ ins_L3' = ins_L3 \cup {url}
       ELSE /\ learned_bf' = insert_L1(learned_bf, url)
            /\ UNCHANGED ins_L3

Populate ==
    /\ pc = "populate"
    /\ i < Len(malicious_urls)
    /\ \E r \in RandSample : PopulateWith(malicious_urls[i + 1], r)
    /\ i' = i + 1
    /\ op' = "populate"
    /\ arg' = malicious_urls[i + 1]
    /\ UNCHANGED <<hasher, model, given, feat, fault, pc, ret, mem>>

\* the loop over malicious_urls ends
Populated ==
    /\ pc = "populate"
    /\ i >= Len(malicious_urls)
    /\ pc' = "populated"
    /\ op' = "populated"
    /\ arg' = <<>>
    /\ UNCHANGED <<hasher, model, given, feat, standard_bf, learned_bf, fault, i, ret, mem,
                   ins_std, ins_L1, ins_L3>>

InitMain ==
    Start(MaliciousSet, Max(StandardHashes, Max(L1Hashes, L3Hashes)), Features(MaliciousSet))

NextMain == SetupStandard \/ SetupLearned \/ Generate \/ Populate \/ Populated

SpecMain == InitMain /\ [][NextMain]_vars

\* ------------------------------------------------ a caller of extract_features
\* a char whose value is negative where char is signed (byte 0xE9)
HighByte == "0xE9"

\* isdigit(c) is undefined when c is neither EOF nor representable as
\* unsigned char: extract_features passes the char unconverted
isdigit_undefined(c) == c = HighByte

\* the isdigit calls of extract_features(item) whose behaviour is undefined
undefined_calls(item) ==
    Cardinality({n \in 1..Len(item) : isdigit_undefined(item[n])})

\* what an isdigit call with an out-of-range argument can end in: a read
\* outside the classification table, or the library's argument assertion
IsdigitCrashes == {"SIGSEGV", "SIGABRT"}

\* a letter, a digit, the hyphen and a byte above 0x7F
FeatureChars == {"a", "7", "-", HighByte}

\* the keys of at most MaxKeyLen chars
FeatureKeys == UNION {[1..n -> FeatureChars] : n \in 0..MaxKeyLen}

\* learned_bf.extract_features(arg, f0, f1, f2): each undefined isdigit
\* call returns zero, returns nonzero, or ends the process
ExtractFeatures ==
    /\ pc = "ready"
    /\ op' = "extract_features"
    /\ \/ /\ \E nonzero \in 0..undefined_calls(arg) :
                feat' = [extract_features(arg) EXCEPT ![2] = @ + nonzero]
          /\ UNCHANGED <<fault, pc>>
       \/ /\ undefined_calls(arg) > 0
          /\ fault' \in IsdigitCrashes
          /\ pc' = "terminated"
          /\ UNCHANGED feat
    /\ UNCHANGED <<hasher, model, given, standard_bf, learned_bf, i, arg, ret, mem,
                   ins_std, ins_L1, ins_L3>>

\* a constructed learned_bf and the key extract_features is about to get
InitFeatures ==
    \E L1_size \in 1..MaxLayerSize, L3_size \in 1..MaxLayerSize, item \in FeatureKeys :
        /\ hasher \in [HashedStrings({}, 0) -> HashVals]
        /\ model \in [Features({}) -> BOOLEAN]
        /\ standard_bf = NoFilter
        /\ learned_bf = SandwichedLearnedBloomFilter(L1_size, 0, L3_size, 0)
        /\ fault = "none"
        /\ pc = "ready"
        /\ i = 0
        /\ op = "SandwichedLearnedBloomFilter"
        /\ arg = item
        /\ ret = FALSE
        /\ mem = 0
        /\ ins_std = {}
        /\ ins_L1 = {}
        /\ ins_L3 = {}
        /\ given = [NoneGiven EXCEPT !.L1_filter = L1_size, !.L3_filter = L3_size]
        /\ feat = <<0, 0, 0>>

NextFeatures == ExtractFeatures

SpecFeatures == InitFeatures /\ [][NextFeatures]_vars


\* ============================================================== properties
L1 == learned_bf.L1_filter
L3 == learned_bf.L3_filter

\* C1: a StandardBloomFilter of size >= 1 and num_hashes >= 0 answers true
\* for every key that was ever passed to insert, whatever was inserted
\* since; a possibly_contains call on such a key returns true.
C1_NoFalseNegative ==
    (pc = "ready" /\ standard_bf.size >= 1 /\ standard_bf.num_hashes >= 0) =>
        /\ \A k \in ins_std : possibly_contains(standard_bf, k)
        /\ (op = "possibly_contains" /\ arg \in ins_std) => ret = TRUE

\* both keys were inserted into a filter with two hash functions that is
\* not saturated, and possibly_contains has just answered true for one
C1_Witness ==
    /\ pc = "ready"
    /\ standard_bf.size >= 2
    /\ standard_bf.num_hashes >= 2
    /\ ins_std = Keys
    /\ BitCount(standard_bf) < standard_bf.size
    /\ op = "possibly_contains"
    /\ arg \in ins_std
    /\ ret = TRUE

\* the insertion protocol was followed for the true set T
ProtocolFollowed(T) ==
    /\ T \subseteq ins_L1
    /\ \A k \in T : ~predicts_member(k) => k \in ins_L3

\* C2: for every classifier and every true set T, once every key of T was
\* passed to insert_L1 and every key of T the classifier rejects was passed
\* to insert_L3, query answers true for every key of T, whatever is
\* inserted afterwards.
C2_SandwichNoFalseNegative ==
    \A T \in SUBSET Keys :
        ProtocolFollowed(T) =>
            /\ \A k \in T : query(learned_bf, k)
            /\ (op = "query" /\ arg \in T /\ fault = "none") => ret = TRUE

\* the classifier rejects every key, both keys went through both layers,
\* L3 checks at least one bit, and query has just answered
C2_Witness ==
    /\ pc = "ready"
    /\ \A k \in Keys : ~predicts_member(k)
    /\ ins_L1 = Keys
    /\ ins_L3 = Keys
    /\ L1.num_hashes >= 1
    /\ L3.num_hashes >= 1
    /\ L3.size >= 2
    /\ op = "query"
    /\ ret = TRUE

\* C3: a key main has populated is in L3 exactly when the classifier
\* predicts non-member for it.
C3_L3IffClassifierNegative ==
    \A url \in ins_L1 : (url \in ins_L3) <=> ~predicts_member(url)

\* C4: wherever query is defined it is L1 AND (classifier OR L3): false when
\* L1 rejects, true when L1 accepts and the classifier predicts member,
\* and L3's answer otherwise; a query call returns that value.
C4_QueryProtocol ==
    pc = "ready" =>
        \A k \in Keys :
            ~query_divides_by_zero(learned_bf, k) =>
                /\ ~possibly_contains(L1, k) => query(learned_bf, k) = FALSE
                /\ (possibly_contains(L1, k) /\ predicts_member(k)) =>
                       query(learned_bf, k) = TRUE
                /\ (possibly_contains(L1, k) /\ ~predicts_member(k)) =>
                       query(learned_bf, k) = possibly_contains(L3, k)
                /\ (op = "query" /\ arg = k) =>
                       ret = (possibly_contains(L1, k)
                              /\ (predicts_member(k) \/ possibly_contains(L3, k)))

\* query has just answered true for a key the classifier accepts while L3 is
\* empty and would reject it
C4_Witness ==
    /\ pc = "ready"
    /\ op = "query"
    /\ ret = TRUE
    /\ predicts_member(arg)
    /\ arg \in ins_L1
    /\ L1.size >= 1 /\ L1.num_hashes >= 1
    /\ L3.size >= 1 /\ L3.num_hashes >= 1
    /\ ins_L3 = {}
    /\ BitCount(L3) = 0

\* C5: every constructed StandardBloomFilter has size >= 1.
C5_SizeValidated == pc = "ready" => standard_bf.size >= 1

\* C6: after main's population loop has handled a url, L1 accepts it, and
\* query rejects it exactly when the classifier predicts non-member and L3
\* does not report it, which only happens to a url the draw kept out of L3.
C6_FalseNegativeCause ==
    pc \in {"populate", "populated"} =>
        \A n \in 1..i :
            LET url == malicious_urls[n] IN
            /\ url \in ins_L1
            /\ possibly_contains(L1, url)
            /\ (query(learned_bf, url) = FALSE)
                  <=> (~predicts_member(url) /\ ~possibly_contains(L3, url))
            /\ (query(learned_bf, url) = FALSE) => url \notin ins_L3

\* population is over and query rejects a malicious url that is in L1
C6_Witness ==
    /\ pc = "populated"
    /\ \E url \in MaliciousSet :
          /\ url \in ins_L1
          /\ possibly_contains(L1, url)
          /\ ~predicts_member(url)
          /\ url \notin ins_L3
          /\ query(learned_bf, url) = FALSE

\* C7 as stated: with sizes >= 1, any hash counts >= 0 and insert_L3 never
\* called, query is false for every key the classifier rejects.
C7_NoL3MeansRejected ==
    (pc = "ready" /\ L1.size >= 1 /\ L3.size >= 1 /\ ins_L3 = {}) =>
        \A k \in Keys : ~predicts_member(k) => query(learned_bf, k) = FALSE

\* C7 amended: the same when L3 has at least one hash function.
C7_NoL3MeansRejectedWhenL3Hashes ==
    (pc = "ready" /\ L1.size >= 1 /\ L3.size >= 1 /\ L3.num_hashes >= 1 /\ ins_L3 = {}) =>
        /\ \A k \in Keys : ~predicts_member(k) => query(learned_bf, k) = FALSE
        /\ (op = "query" /\ ~predicts_member(arg)) => ret = FALSE

\* a key the classifier rejects is in L1, L1 accepts it, nothing was given
\* to L3, and query has just answered false for it
C7_Witness ==
    /\ pc = "ready"
    /\ L1.size >= 1 /\ L3.size >= 1 /\ L3.num_hashes >= 1
    /\ ins_L3 = {}
    /\ op = "query"
    /\ arg \in ins_L1
    /\ possibly_contains(L1, arg)
    /\ ~predicts_member(arg)
    /\ ret = FALSE

\* C8: in every reachable state inserting a key twice gives the bit array
\* that inserting it once gives, and inserting a key that was inserted
\* before changes nothing.
C8_InsertIdempotent ==
    (pc = "ready" /\ ~divides_by_zero(standard_bf)) =>
        \A k \in Keys :
            /\ insert(insert(standard_bf, k), k) = insert(standard_bf, k)
            /\ k \in ins_std => insert(standard_bf, k) = standard_bf

\* insert has just run on a filter with two hash functions, set a bit and
\* left another clear
C8_Witness ==
    /\ pc = "ready"
    /\ op = "insert"
    /\ arg \in ins_std
    /\ standard_bf.num_hashes >= 2
    /\ BitCount(standard_bf) >= 1
    /\ BitCount(standard_bf) < standard_bf.size

\* every bit set in f is set in g, and g has at least as many set bits
Monotone(f, g) ==
    /\ \A n \in 1..Len(f.bit_array) : f.bit_array[n] => g.bit_array[n]
    /\ BitCount(f) <= BitCount(g)

\* C9: no step resets a set bit of standard_bf, L1 or L3, and no step
\* lowers a filter's number of set bits.
C9_BitsMonotone ==
    [][/\ Monotone(standard_bf, standard_bf')
       /\ Monotone(L1, L1')
       /\ Monotone(L3, L3')]_vars

\* both layers hold a set bit and a clear bit after an insertion of a second key
C9_Witness ==
    /\ pc = "ready"
    /\ op \in {"insert_L1", "insert_L3"}
    /\ Cardinality(ins_L1) >= 2
    /\ BitCount(L1) >= 1 /\ BitCount(L1) < L1.size
    /\ BitCount(L3) >= 1 /\ BitCount(L3) < L3.size

\* the const member functions
ConstOps == {"possibly_contains", "query", "get_memory_bits"}

\* C10: a step that calls possibly_contains, query or get_memory_bits
\* leaves every filter (bit array, size, num_hashes) as it was, so every
\* key's answer is the same after the step as before.
C10_QueriesReadOnly ==
    [][op' \in ConstOps =>
          /\ standard_bf' = standard_bf
          /\ learned_bf' = learned_bf]_vars

\* a query answered between insertions, with bits set in both layers
C10_Witness ==
    /\ pc = "ready"
    /\ op = "query"
    /\ ins_L1 # {} /\ ins_L3 # {}
    /\ BitCount(L1) >= 1
    /\ BitCount(L3) >= 1

\* C11: get_memory_bits of every StandardBloomFilter is the size its
\* constructor was given, and the sandwich's is L1_size + L3_size, whatever
\* was inserted and however many bits are set; a get_memory_bits call on
\* learned_bf returns that sum and one on standard_bf returns its size.
C11_MemoryAccounting ==
    /\ get_memory_bits(standard_bf) = given.standard_bf
    /\ get_memory_bits(L1) = given.L1_filter
    /\ get_memory_bits(L3) = given.L3_filter
    /\ sandwich_memory_bits(learned_bf) = given.L1_filter + given.L3_filter
    /\ (op = "get_memory_bits" /\ given.standard_bf = 0) =>
           mem = given.L1_filter + given.L3_filter
    /\ (op = "get_memory_bits" /\ given.L1_filter = 0 /\ given.L3_filter = 0) =>
           mem = given.standard_bf

\* get_memory_bits has just answered on a sandwich that holds keys in both
\* layers, with some bits set and some clear
C11_Witness ==
    /\ pc = "ready"
    /\ op = "get_memory_bits"
    /\ ins_L1 = Keys /\ ins_L3 # {}
    /\ BitCount(L1) >= 1 /\ BitCount(L1) < L1.size
    /\ BitCount(L3) >= 1 /\ BitCount(L3) < L3.size
    /\ mem = L1.size + L3.size

\* the bit array of f has f.size elements and, when size >= 1, every index
\* hash gives for a seed in [0, num_hashes) is in [0, size)
InBounds(f) ==
    /\ Len(f.bit_array) = f.size
    /\ f.size >= 1 =>
           \A k \in Keys, seed \in 0..(f.num_hashes - 1) :
               /\ hash(f, k, seed) \in 0..(f.size - 1)
               /\ (hash(f, k, seed) + 1) \in DOMAIN f.bit_array

\* C12: in every reachable state each filter's bit array has exactly size
\* elements and, for size >= 1, hash(key, seed) is an index in [0, size)
\* for every key and every seed in [0, num_hashes), so insert and
\* possibly_contains index inside the bit array.
C12_HashInBounds ==
    pc = "ready" => (InBounds(standard_bf) /\ InBounds(L1) /\ InBounds(L3))

\* insert has just run on a filter of size >= 2 with two hash functions,
\* and some key hashes to the last index
C12_Witness ==
    /\ pc = "ready"
    /\ op = "insert"
    /\ standard_bf.size >= 2
    /\ standard_bf.num_hashes >= 2
    /\ \E k \in ins_std, seed \in 0..(standard_bf.num_hashes - 1) :
          /\ hash(standard_bf, k, seed) = standard_bf.size - 1
          /\ standard_bf.bit_array[standard_bf.size]

\* C13: two StandardBloomFilter objects of the same size get the same index
\* from hash for every key and seed, whatever their bit arrays hold; when
\* they also have the same num_hashes and were given the same keys to
\* insert, their bit arrays are equal and they answer every
\* possibly_contains alike, whatever queries ran in between.
C13_Deterministic ==
    (pc = "ready" /\ L1.size = L3.size /\ L1.size >= 1) =>
        /\ \A k \in Keys, seed \in 0..(Max(L1.num_hashes, L3.num_hashes) - 1) :
               hash(L1, k, seed) = hash(L3, k, seed)
        /\ (L1.num_hashes = L3.num_hashes /\ ins_L1 = ins_L3) =>
               /\ L1.bit_array = L3.bit_array
               /\ \A k \in Keys : possibly_contains(L1, k) = possibly_contains(L3, k)

\* two layers of the same size >= 2 and the same hash count >= 1 were given
\* the same key, a bit is set and another clear, and a query has just run
C13_Witness ==
    /\ pc = "ready"
    /\ L1.size = L3.size /\ L1.size >= 2
    /\ L1.num_hashes = L3.num_hashes /\ L1.num_hashes >= 1
    /\ ins_L1 = ins_L3 /\ ins_L1 # {}
    /\ BitCount(L1) >= 1 /\ BitCount(L1) < L1.size
    /\ op = "query"

\* the bit-array positions insert(item) writes in f
Written(f, item) == {hash(f, item, seed) + 1 : seed \in 0..(f.num_hashes - 1)}

\* C14: an insert(key) step that returns sets exactly the bits at
\* hash(key, i), i in [0, num_hashes): every other bit, size and num_hashes
\* stay as they were, and with num_hashes = 0 nothing changes.
C14_InsertFrame ==
    [][(op' = "insert" /\ fault' = "none") =>
          /\ standard_bf'.size = standard_bf.size
          /\ standard_bf'.num_hashes = standard_bf.num_hashes
          /\ Len(standard_bf'.bit_array) = Len(standard_bf.bit_array)
          /\ \A n \in 1..Len(standard_bf.bit_array) :
                 standard_bf'.bit_array[n] =
                     (standard_bf.bit_array[n] \/ n \in Written(standard_bf, arg'))
          /\ standard_bf.num_hashes = 0 => standard_bf' = standard_bf]_vars

\* insert has just run for the second key on a filter with two hash
\* functions in which exactly one bit is set
C14_Witness ==
    /\ pc = "ready"
    /\ op = "insert"
    /\ ins_std = Keys
    /\ standard_bf.num_hashes >= 2
    /\ standard_bf.size >= 2
    /\ BitCount(standard_bf) = 1

\* C15: an insert_L1 step leaves L3 as it was and an insert_L3 step leaves
\* L1 as it was; after insert_L3(key) query(key) is still false when L1
\* did not accept key.
C15_LayerIsolation ==
    [][/\ op' = "insert_L1" => L3' = L3
       /\ op' = "insert_L3" =>
              /\ L1' = L1
              /\ (fault' = "none" /\ ~divides_by_zero(L1)
                    /\ ~possibly_contains(L1, arg')) =>
                     query(learned_bf', arg') = FALSE]_vars

\* insert_L3 has just put a key into L3 that L1 never saw and rejects:
\* L3 accepts it, and query rejects it
C15_Witness ==
    /\ pc = "ready"
    /\ op = "insert_L3"
    /\ arg \in ins_L3
    /\ arg \notin ins_L1
    /\ ins_L1 # {}
    /\ L1.size >= 1 /\ L1.num_hashes >= 1
    /\ L3.size >= 1 /\ L3.num_hashes >= 1
    /\ ~possibly_contains(L1, arg)
    /\ possibly_contains(L3, arg)
    /\ query(learned_bf, arg) = FALSE

\* every key f accepts is accepted by g
Stable(f, g) ==
    ~divides_by_zero(f) =>
        \A k \in Keys : possibly_contains(f, k) => possibly_contains(g, k)

\* C16: across every step on constructed objects, a key (inserted or not)
\* that possibly_contains accepts is still accepted afterwards, and a key
\* for which query is true stays true: positive answers are never lost.
\* (A step that leaves both objects as they were keeps every answer, so
\* only the steps that change one are examined.)
C16_PositiveStable ==
    [][(pc = "ready" /\ <<standard_bf, learned_bf>>' # <<standard_bf, learned_bf>>) =>
          /\ Stable(standard_bf, standard_bf')
          /\ Stable(L1, L1')
          /\ Stable(L3, L3')
          /\ \A k \in Keys :
                 (~query_divides_by_zero(learned_bf, k) /\ query(learned_bf, k)) =>
                     query(learned_bf', k)]_vars

\* a false positive that survived an insertion: query is true for a key
\* that was never given to insert_L1, through an L1 that checks a bit
C16_Witness ==
    /\ pc = "ready"
    /\ op \in {"insert_L1", "insert_L3"}
    /\ L1.size >= 2 /\ L1.num_hashes >= 1
    /\ \E k \in Keys \ ins_L1 :
          /\ possibly_contains(L1, k)
          /\ query(learned_bf, k)

\* f after insert was called once for each key of S, in some fixed order
RECURSIVE InsertAll(_, _)
InsertAll(f, S) ==
    IF S = {} THEN f
    ELSE LET k == CHOOSE x \in S : TRUE IN InsertAll(insert(f, k), S \ {k})

\* inserting two keys into f in either order gives the same filter, and f
\* is what inserting the set S of keys into the freshly constructed filter gives
OrderFree(f, S) ==
    ~divides_by_zero(f) =>
        /\ \A a \in Keys, b \in Keys :
               insert(insert(f, a), b) = insert(insert(f, b), a)
        /\ f = InsertAll(StandardBloomFilter(f.size, f.num_hashes), S)

\* C17: in every reachable state insert(a); insert(b) and insert(b);
\* insert(a) give the same bit array, and each filter's bit array is a
\* function of the set of keys inserted into it, not of their order or
\* multiplicity; this holds for standard_bf and for L1 and L3 under any
\* interleaving of insert_L1 and insert_L3.
C17_OrderIndependent ==
    pc = "ready" =>
        /\ OrderFree(standard_bf, ins_std)
        /\ OrderFree(L1, ins_L1)
        /\ OrderFree(L3, ins_L3)

\* both keys were inserted into a filter with two hash functions, and the
\* two keys alone would set different bits
C17_Witness ==
    /\ pc = "ready"
    /\ op = "insert"
    /\ ins_std = Keys
    /\ standard_bf.size >= 2
    /\ standard_bf.num_hashes >= 2
    /\ \E a \in Keys, b \in Keys :
          insert(StandardBloomFilter(standard_bf.size, standard_bf.num_hashes), a)
              # insert(StandardBloomFilter(standard_bf.size, standard_bf.num_hashes), b)

DigitChars == {"0", "1", "2", "3", "4", "5", "6", "7", "8", "9"}

\* the features the key item has by definition
Counted(item) ==
    <<Len(item),
      Cardinality({n \in 1..Len(item) : item[n] \in DigitChars}),
      Cardinality({n \in 1..Len(item) : item[n] = "-"})>>

\* extract_features has returned the key's features and left the filters
\* as they were constructed
FeaturesAsSpecified ==
    /\ fault = "none"
    /\ feat = Counted(arg)
    /\ feat[2] + feat[3] <= feat[1]
    /\ arg = <<>> => feat = <<0, 0, 0>>
    /\ standard_bf = NoFilter
    /\ learned_bf = SandwichedLearnedBloomFilter(given.L1_filter, 0, given.L3_filter, 0)

\* C18: after extract_features on any key, f0 is the key's length, f1 the
\* number of its digit characters and f2 the number of its '-' characters,
\* f1 + f2 <= f0, the empty key gives 0, 0, 0, and no filter state was read
\* or written.
C18_FeaturesPure == op = "extract_features" => FeaturesAsSpecified

\* the same for keys all of whose chars are representable as unsigned char
SevenBitFeaturesPure ==
    (op = "extract_features" /\ undefined_calls(arg) = 0) => FeaturesAsSpecified

\* extract_features has returned for a key with a digit, a hyphen and a letter
SevenBitWitness ==
    /\ op = "extract_features"
    /\ undefined_calls(arg) = 0
    /\ feat[1] = 3 /\ feat[2] = 1 /\ feat[3] = 1

====
